---- MODULE Spec2Model ----
(***************************************************************************)
(* Blender scripting utilities of kristinriebe/blendertools as state       *)
(* machines over the host's data blocks (bpy.data): keyframe shifting,     *)
(* star import from csv, clean-up of unused data blocks, shape keys and    *)
(* the camera path. Frames, values and coordinates are integers, vertex    *)
(* coordinates of shape keys exact fractions; every script runs            *)
(* sequentially, so each function call is one atomic step.                 *)
(***************************************************************************)
EXTENDS Integers, Sequences, FiniteSets, TLC

VARIABLES
    actions,    \* bpy.data.actions: action id -> sequence of fcurves (sequences of keyframes)
    objects,    \* bpy.data.objects of the animation file: object id -> record
    materials,  \* bpy.data.materials of the animation file: material id -> record
    collected,  \* what the last get_actions_for_objects() call produced
    last,       \* the last call of the keyframe script with its arguments
    before,     \* bpy.data.actions as they were when the last call started
    ncalls,     \* number of shift_keyframes() calls made so far
    file,       \* the csv file on disk: whether it exists and its rows of cells
    lines,      \* what read_daiquiri_csv() returned or raised
    starlist,   \* what adjust_values() returned or raised
    created,    \* the last create_hrv_meshes() call: posfac and the objects it made
    pc,         \* how far the import script has come
    nruns,      \* number of imports started so far
    data_objects,   \* bpy.data.objects of the star scene, in iteration order
    data_meshes,    \* bpy.data.meshes of the star scene, in iteration order
    data_materials, \* bpy.data.materials of the star scene, in iteration order
    cleaned,    \* the last delete_unused_...() call: the collection before it, the count printed
    shape_objects,  \* bpy.data.objects of deform_starmesh.py: object id -> record
    namepattern,    \* the module-level name 'namepattern' of deform_starmesh.py
    shaped,     \* the last shape key call: its arguments, the objects before it, what it raised
    form_objects,   \* objects of deform_starmesh.py with the vertices of their shape keys
    formed,     \* the last call that made or animated a shape key, and the objects before it
    cam_objects,    \* bpy.data.objects of animate_camera.py, in creation order
    scene_frame_end,    \* bpy.context.scene.frame_end
    pathname,   \* the module-level name 'pathname' of animate_camera.py
    animated,   \* the last animate_camera() or run() call and what it raised
    elsewhere,  \* names of the star scene's objects that are not linked in the current scene
    rerun       \* completed runs of the import script and the scene the first one left

keyvars == <<actions, objects, materials, collected, last, before, ncalls>>
importvars == <<file, lines, starlist, created, pc, nruns>>
scenevars == <<data_objects, data_meshes, data_materials>>
cleanvars == <<cleaned>>
shapevars == <<shape_objects, namepattern, shaped>>
formvars == <<form_objects, formed>>
camvars == <<cam_objects, scene_frame_end, pathname, animated>>
rerunvars == <<elsewhere, rerun>>
latervars == <<formvars, camvars, rerunvars>>

vars == <<keyvars, importvars, scenevars, cleanvars, shapevars, latervars>>

(***************************************************************************)
(* Bounds                                                                  *)
(***************************************************************************)
MaxCalls == 2           \* direct shift_keyframes() calls per behaviour
MaxRuns == 1            \* runs of the script's main part per behaviour
MaxRows == 2            \* data rows of the csv file
MaxColl == 3            \* entries of bpy.data.meshes and of bpy.data.materials before a clean-up
MaxCleans == 2          \* delete_unused_...() calls per behaviour
MaxShapes == 1          \* shape key calls per behaviour

(***************************************************************************)
(* Host data of the keyframe scripts                                       *)
(***************************************************************************)
None == "None"                      \* Python's None
NoAnimData == "no_animation_data"   \* x.animation_data is None

ActionIds == {"a1", "a2", "a3"}
ActionOrder == <<"a1", "a2", "a3">>     \* iteration order of bpy.data.actions
ObjectOrder == <<"o1", "o2", "o3">>     \* iteration order of bpy.data.objects
ObjectIds == {"o1", "o2", "o3"}
MaterialIds == {"m1"}

\* Default arguments of shift_keyframes
DefaultFactor == 1
DefaultFrameshift == 0
DefaultFrameStart == 0
DefaultFrameEnd == 1000000

\* A keyframe point: co, handle_left and handle_right are (frame, value) pairs
Keyframe(frame, value, d) ==
    [co |-> <<frame, value>>,
     handle_left |-> <<frame - d, value - 1>>,
     handle_right |-> <<frame + d, value + 1>>]

\* The animation data of the file: three actions, keyframes sorted by frame
InitActions(d) ==
    [a \in ActionIds |->
        CASE a = "a1" -> << <<Keyframe(0, 7, d), Keyframe(2, 8, d),
                              Keyframe(10, 9, d), Keyframe(11, 7, d)>>,
                            <<Keyframe(-3, 20, d), Keyframe(5, 21, d)>> >>
          [] a = "a2" -> << <<Keyframe(1, 30, d), Keyframe(1000000, 31, d),
                              Keyframe(1000001, 32, d)>> >>
          [] a = "a3" -> << <<Keyframe(-1, 40, d), Keyframe(4, 41, d)>> >>]

Names == [o \in ObjectIds |->
            CASE o = "o1" -> <<"C", "a">>
              [] o = "o2" -> <<"C", "b">>
              [] o = "o3" -> <<"L", "a">>]

Patterns == { <<"C", "*">>, <<"*">>, <<"L", "?">>, <<"c", "*">> }

Elements(seq) == {seq[i] : i \in DOMAIN seq}

\* fnmatch.fnmatchcase for patterns made of literal characters, * and ?
RECURSIVE fnmatchcase(_, _)
fnmatchcase(name, pat) ==
    IF pat = <<>> THEN name = <<>>
    ELSE IF Head(pat) = "*"
         THEN fnmatchcase(name, Tail(pat))
              \/ (name # <<>> /\ fnmatchcase(Tail(name), pat))
    ELSE IF name = <<>> THEN FALSE
    ELSE (Head(pat) = "?" \/ Head(pat) = Head(name))
         /\ fnmatchcase(Tail(name), Tail(pat))

(***************************************************************************)
(* shift_keyframes                                                         *)
(***************************************************************************)
\* Lines 96-105: the test on co[0] and the three assignments
ShiftKeyframeBothHandlesTested(keyframe, factor, frameshift, frame_start, frame_end) ==
    LET inr(f) == f >= frame_start /\ f <= frame_end
        mv(p) == IF inr(p[1]) THEN <<p[1] * factor + frameshift, p[2]>> ELSE p
    IN [co |-> mv(keyframe.co),
        handle_left |-> mv(keyframe.handle_left),
        handle_right |-> mv(keyframe.handle_right)]

ShiftKeyframeValuesToo(keyframe, factor, frameshift, frame_start, frame_end) ==
    LET mv(p) == <<p[1] * factor + frameshift, p[2] * factor + frameshift>>
    IN IF keyframe.co[1] >= frame_start /\ keyframe.co[1] <= frame_end
       THEN [co |-> mv(keyframe.co),
             handle_left |-> mv(keyframe.handle_left),
             handle_right |-> mv(keyframe.handle_right)]
       ELSE keyframe

ShiftKeyframe(keyframe, factor, frameshift, frame_start, frame_end) ==
    IF keyframe.co[1] >= frame_start /\ keyframe.co[1] <= frame_end
    THEN [co |-> <<keyframe.co[1] * factor + frameshift, keyframe.co[2]>>,
          handle_left |-> <<keyframe.handle_left[1] * factor + frameshift,
                            keyframe.handle_left[2]>>,
          handle_right |-> <<keyframe.handle_right[1] * factor + frameshift,
                             keyframe.handle_right[2]>>]
    ELSE keyframe

\* Lines 91-105: the loops over action.fcurves and fcu.keyframe_points.
\* Assigning co[0] does not re-sort keyframe_points, so every point is visited once.
ShiftAction(action, factor, frameshift, frame_start, frame_end) ==
    [j \in DOMAIN action |->
        [i \in DOMAIN action[j] |->
            ShiftKeyframe(action[j][i], factor, frameshift, frame_start, frame_end)]]

\* Lines 88-107: the loop over the given collection, in iteration order.
\* action.name on None raises AttributeError and ends the call where it stands.
RECURSIVE ShiftLoop(_, _, _, _, _, _, _)
ShiftLoop(acts, seq, i, factor, frameshift, frame_start, frame_end) ==
    IF i > Len(seq) THEN [actions |-> acts, raised |-> FALSE]
    ELSE IF seq[i] = None THEN [actions |-> acts, raised |-> TRUE]
    ELSE ShiftLoop([acts EXCEPT ![seq[i]] =
                        ShiftAction(@, factor, frameshift, frame_start, frame_end)],
                   seq, i + 1, factor, frameshift, frame_start, frame_end)

shift_keyframes(acts, seq, factor, frameshift, frame_start, frame_end) ==
    ShiftLoop(acts, seq, 1, factor, frameshift, frame_start, frame_end)

(***************************************************************************)
(* get_actions_for_objects                                                 *)
(***************************************************************************)
\* Lines 57-62: the loop over obj.material_slots. An empty slot has
\* matslot.material = None, and None.animation_data raises AttributeError.
SlotLoopSkipsMaterials(mats, slots, i, acc) ==
    [raised |-> None \in Elements(slots), actions |-> acc]

RECURSIVE SlotLoop(_, _, _, _)
SlotLoop(mats, slots, i, acc) ==
    IF i > Len(slots) THEN [raised |-> FALSE, actions |-> acc]
    ELSE IF slots[i] = None THEN [raised |-> TRUE, actions |-> acc]
    ELSE SlotLoop(mats, slots, i + 1,
                  IF mats[slots[i]].animation # NoAnimData
                  THEN acc \cup {mats[slots[i]].animation}
                  ELSE acc)

\* Lines 49-62: the loop over the matching objects; actions is a Python set
RECURSIVE ObjectLoop(_, _, _, _, _)
ObjectLoop(objs, mats, matching, i, acc) ==
    IF i > Len(matching) THEN [raised |-> FALSE, actions |-> acc]
    ELSE LET obj == objs[matching[i]]
             own == IF obj.animation # NoAnimData
                    THEN acc \cup {obj.animation}
                    ELSE acc
             r == SlotLoop(mats, obj.material_slots, 1, own)
         IN IF r.raised THEN r
            ELSE ObjectLoop(objs, mats, matching, i + 1, r.actions)

\* Lines 41-42: the objects of bpy.data.objects whose name matches
MatchingObjects(objs, pattern) ==
    SelectSeq(ObjectOrder, LAMBDA o : fnmatchcase(objs[o].name, pattern))

get_actions_for_objects(objs, mats, pattern) ==
    ObjectLoop(objs, mats, MatchingObjects(objs, pattern), 1, {})

(***************************************************************************)
(* ravestars_mesh.py: text of the csv file                                 *)
(***************************************************************************)
\* A cell or a column name is a sequence of characters
RAdeg == <<"R", "A", "d", "e", "g">>
DEdeg == <<"D", "E", "d", "e", "g">>
Glon == <<"G", "l", "o", "n">>
Glat == <<"G", "l", "a", "t">>
dist == <<"d", "i", "s", "t">>
HRV == <<"H", "R", "V">>
Teff_K == <<"T", "e", "f", "f", "_", "K">>
HeaderRow == <<RAdeg, DEdeg, Glon, Glat, dist, HRV, Teff_K>>

DigitChars == {"0", "1", "2", "3", "4", "5", "6", "7", "8", "9"}
DigitValue(c) ==
    CASE c = "0" -> 0 [] c = "1" -> 1 [] c = "2" -> 2 [] c = "3" -> 3 [] c = "4" -> 4
      [] c = "5" -> 5 [] c = "6" -> 6 [] c = "7" -> 7 [] c = "8" -> 8 [] c = "9" -> 9

RECURSIVE Strip(_)
Strip(str) ==
    IF str = <<>> THEN str
    ELSE IF Head(str) = " " THEN Strip(Tail(str))
    ELSE IF str[Len(str)] = " " THEN Strip(SubSeq(str, 1, Len(str) - 1))
    ELSE str

RECURSIVE DigitsToInt(_, _)
DigitsToInt(str, acc) ==
    IF str = <<>> THEN acc
    ELSE DigitsToInt(Tail(str), acc * 10 + DigitValue(Head(str)))

\* Python's float() on a decimal integer text: surrounding blanks are dropped,
\* one sign is allowed, and anything else (the empty text too) is a ValueError
ParseFloat(str) ==
    LET t == Strip(str)
        signed == t # <<>> /\ Head(t) \in {"-", "+"}
        digits == IF signed THEN Tail(t) ELSE t
    IN IF digits # <<>> /\ \A i \in DOMAIN digits : digits[i] \in DigitChars
       THEN [ok |-> TRUE,
             value |-> IF signed /\ Head(t) = "-"
                       THEN 0 - DigitsToInt(digits, 0)
                       ELSE DigitsToInt(digits, 0)]
       ELSE [ok |-> FALSE, value |-> 0]

(***************************************************************************)
(* read_daiquiri_csv                                                       *)
(***************************************************************************)
\* csv.Sniffer().has_header, line 145, on rows with ',' as delimiter: a column
\* whose cells below the first row are all numbers, or all of one length, votes
\* for a header when the first row's cell is not of that kind
ColumnType(cell) == IF ParseFloat(cell).ok THEN 0 - 1 ELSE Len(cell)

HeaderVote(rows, col) ==
    LET header == rows[1]
        below == {i \in 2..Len(rows) : Len(rows[i]) = Len(header)}
        types == {ColumnType(rows[i][col]) : i \in below}
    IN IF below = {} THEN 1
       ELSE IF Cardinality(types) > 1 THEN 0
       ELSE LET t == CHOOSE x \in types : TRUE
            IN IF ColumnType(header[col]) # t THEN 1 ELSE 0 - 1

RECURSIVE SumVotes(_, _)
SumVotes(rows, col) ==
    IF col = 0 THEN 0 ELSE HeaderVote(rows, col) + SumVotes(rows, col - 1)

has_header(rows) == SumVotes(rows, Len(rows[1])) > 0

\* csv.DictReader, lines 152-155: the first row gives the keys, every further
\* row one dictionary
DictReader(rows) ==
    LET fieldnames == rows[1]
        Row(i) == [k \in Elements(fieldnames) |->
                      rows[i][CHOOSE c \in DOMAIN fieldnames :
                                 /\ fieldnames[c] = k
                                 /\ \A e \in DOMAIN fieldnames :
                                       fieldnames[e] = k => e <= c]]
    IN [i \in 1..(Len(rows) - 1) |-> Row(i + 1)]

\* Lines 137-158. The Sniffer cannot find a delimiter in a file without text
\* and raises csv.Error, which is not a RuntimeError.
read_daiquiri_csv(f) ==
    IF ~f.exists THEN [outcome |-> "RuntimeError", rows |-> <<>>]
    ELSE IF f.rows = <<>> THEN [outcome |-> "csv.Error", rows |-> <<>>]
    ELSE IF ~has_header(f.rows) THEN [outcome |-> "RuntimeError", rows |-> <<>>]
    ELSE [outcome |-> "returned", rows |-> DictReader(f.rows)]

(***************************************************************************)
(* adjust_values                                                           *)
(***************************************************************************)
\* cos and sin of an angle in degrees that is a multiple of 90
CosDeg(a) == CASE a % 360 = 0 -> 1 [] a % 360 = 180 -> 0 - 1 [] OTHER -> 0
SinDeg(a) == CASE a % 360 = 90 -> 1 [] a % 360 = 270 -> 0 - 1 [] OTHER -> 0

\* Lines 176-192: an empty field counts as 0, any other text goes to float()
FieldOrZero(text) ==
    IF text # <<>> THEN ParseFloat(text) ELSE [ok |-> TRUE, value |-> 0]

\* Lines 170-207, one pass of the loop: the star of a line, or a ValueError
AdjustLine(line) ==
    LET ra == ParseFloat(line[RAdeg])
        de == ParseFloat(line[DEdeg])
        lon == ParseFloat(line[Glon])
        lat == ParseFloat(line[Glat])
        d == FieldOrZero(line[dist])
        hrv == FieldOrZero(line[HRV])
        teff == FieldOrZero(line[Teff_K])
        phi == lon.value
        theta == 90 - lat.value
        r == d.value
    IN [ok |-> ra.ok /\ de.ok /\ lon.ok /\ lat.ok /\ d.ok /\ hrv.ok /\ teff.ok,
        star |-> [x |-> r * CosDeg(phi) * SinDeg(theta),
                  y |-> r * SinDeg(phi) * SinDeg(theta),
                  z |-> r * CosDeg(theta),
                  teff |-> teff.value,
                  hrv |-> hrv.value]]

RECURSIVE AdjustLoopSkipsEmptyHrv(_, _, _)
AdjustLoopSkipsEmptyHrv(rows, i, stars) ==
    IF i > Len(rows) THEN [outcome |-> "returned", stars |-> stars]
    ELSE LET a == AdjustLine(rows[i])
         IN IF ~a.ok THEN [outcome |-> "ValueError", stars |-> <<>>]
            ELSE AdjustLoopSkipsEmptyHrv(rows, i + 1,
                    IF rows[i][HRV] = <<>> THEN stars ELSE Append(stars, a.star))

\* Lines 168-209: stars.append(star) for every line, in order
RECURSIVE AdjustLoop(_, _, _)
AdjustLoop(rows, i, stars) ==
    IF i > Len(rows) THEN [outcome |-> "returned", stars |-> stars]
    ELSE LET a == AdjustLine(rows[i])
         IN IF ~a.ok THEN [outcome |-> "ValueError", stars |-> <<>>]
            ELSE AdjustLoop(rows, i + 1, Append(stars, a.star))

adjust_values(rows) == AdjustLoop(rows, 1, <<>>)

(***************************************************************************)
(* create_hrv_meshes                                                       *)
(***************************************************************************)
MeshNames == <<"stars-red", "stars-orange", "stars-yellow", "stars-cyan", "stars-blue">>
MaterialNames == <<"Mesh-red", "Mesh-orange", "Mesh-yellow", "Mesh-cyan", "Mesh-blue">>

\* Lines 253-262: the index in MeshNames of the list a star is appended to
HrvBinInclusive(radvel) ==
    IF radvel >= 50 THEN 1
    ELSE IF radvel >= 10 THEN 2
    ELSE IF radvel >= 0 - 10 THEN 3
    ELSE IF radvel >= 0 - 50 THEN 4
    ELSE 5

HrvBin(radvel) ==
    IF radvel > 50 THEN 1
    ELSE IF radvel > 10 THEN 2
    ELSE IF radvel > 0 - 10 THEN 3
    ELSE IF radvel > 0 - 50 THEN 4
    ELSE 5

\* Lines 239-264: the five vertex lists after the loop over starlist
RECURSIVE VertsLoop(_, _, _, _)
VertsLoop(stars, i, posfac, verts) ==
    IF i > Len(stars) THEN verts
    ELSE LET star == stars[i]
             v == <<star.x * posfac, star.y * posfac, star.z * posfac>>
             b == HrvBin(star.hrv)
         IN VertsLoop(stars, i + 1, posfac, [verts EXCEPT ![b] = Append(@, v)])

\* The host gives a new data block the wanted name, or the wanted name with the
\* first free number behind it when the name is taken
UniqueName(taken, base) ==
    LET n == CHOOSE k \in 0..Cardinality(taken) :
                /\ <<base, k>> \notin taken
                /\ \A e \in 0..(k - 1) : <<base, e>> \in taken
    IN <<base, n>>

NamesOf(coll) == {coll[i].name : i \in DOMAIN coll}

\* make_halo_material, lines 118-126: bpy.data.materials.new()
make_halo_material(mats, matname, size) ==
    Append(mats, [name |-> UniqueName(NamesOf(mats), matname), users |-> 0,
                  type |-> "HALO", halo_size |-> size])

\* create_mesh, lines 221-231: a new object with a new mesh that holds the
\* vertices and has the material in its only slot
create_mesh(sc, verts, mat, name) ==
    LET meshname == UniqueName(NamesOf(sc.meshes), "Mesh")
        objname == UniqueName(NamesOf(sc.objects), name)
    IN [objects |-> Append([i \in DOMAIN sc.objects |->
                               [sc.objects[i] EXCEPT !.select = FALSE]],
                           [name |-> objname, data |-> meshname,
                            select |-> TRUE, hide_select |-> FALSE]),
        meshes |-> Append(sc.meshes, [name |-> meshname, users |-> 1,
                                      verts |-> verts, materials |-> <<mat>>]),
        materials |-> [i \in DOMAIN sc.materials |->
                          IF sc.materials[i].name = mat
                          THEN [sc.materials[i] EXCEPT !.users = @ + 1]
                          ELSE sc.materials[i]]]

RECURSIVE MakeMaterials(_, _, _)
MakeMaterials(mats, i, size) ==
    IF i > Len(MaterialNames) THEN mats
    ELSE MakeMaterials(make_halo_material(mats, MaterialNames[i], size), i + 1, size)

RECURSIVE MakeMeshes(_, _, _, _)
MakeMeshes(sc, verts, mats, i) ==
    IF i > Len(MeshNames) THEN sc
    ELSE MakeMeshes(create_mesh(sc, verts[i], mats[i], MeshNames[i]), verts, mats, i + 1)

\* Lines 239-289: the scene after create_hrv_meshes and the names it gave
create_hrv_meshes(sc, stars, halosize, posfac) ==
    LET verts == VertsLoop(stars, 1, posfac, [b \in 1..5 |-> <<>>])
        n == Len(sc.materials)
        withmats == MakeMaterials(sc.materials, 1, halosize)
        matnames == [b \in 1..5 |-> withmats[n + b].name]
        after == MakeMeshes([sc EXCEPT !.materials = withmats], verts, matnames, 1)
    IN [scene |-> after,
        objects |-> [b \in 1..5 |-> after.objects[Len(sc.objects) + b].name],
        materials |-> matnames]

(***************************************************************************)
(* Values of the variables a script does not use                           *)
(***************************************************************************)
NoCall ==
    [op |-> "none", seq |-> <<>>, factor |-> DefaultFactor,
     frameshift |-> DefaultFrameshift, frame_start |-> DefaultFrameStart,
     frame_end |-> DefaultFrameEnd, raised |-> FALSE, pattern |-> <<>>]

EmptyScene == [objects |-> <<>>, meshes |-> <<>>, materials |-> <<>>]
Scene == [objects |-> data_objects, meshes |-> data_meshes, materials |-> data_materials]

NotRead == [outcome |-> "none", rows |-> <<>>]
NotAdjusted == [outcome |-> "none", stars |-> <<>>]
NotCreated == [posfac |-> 0, objects |-> <<>>, materials |-> <<>>, scene |-> EmptyScene]

IdleImport ==
    /\ file = [exists |-> FALSE, header |-> FALSE, rows |-> <<>>]
    /\ lines = NotRead
    /\ starlist = NotAdjusted
    /\ created = NotCreated
    /\ pc = "idle"
    /\ nruns = 0

IdleScene ==
    /\ data_objects = <<>>
    /\ data_meshes = <<>>
    /\ data_materials = <<>>

NotCleaned == [op |-> "none", count |-> 0, meshes |-> <<>>, materials |-> <<>>, ncleans |-> 0]
IdleClean == cleaned = NotCleaned

Undefined == <<"undefined">>        \* a module-level name that was never assigned
NotShaped == [op |-> "none", objects |-> <<>>, basisname |-> "", raised |-> "",
              before |-> <<>>, nshapes |-> 0]
IdleShape ==
    /\ shape_objects = <<>>
    /\ namepattern = Undefined
    /\ shaped = NotShaped

IdleKeys ==
    /\ actions = <<>>
    /\ objects = <<>>
    /\ materials = <<>>
    /\ collected = [state |-> "none", actions |-> {}, pattern |-> <<>>]
    /\ last = NoCall
    /\ before = <<>>
    /\ ncalls = 0

NotFormed == [op |-> "none", obj |-> "", objects |-> <<>>, keyname |-> <<>>,
              keyname1 |-> <<>>, iframe0 |-> 0, iframe1 |-> 0,
              rsphere |-> 0, mapw |-> 0, maph |-> 0, key |-> <<>>,
              raised |-> "", before |-> <<>>, ncalls |-> 0]
IdleForm ==
    /\ form_objects = <<>>
    /\ formed = NotFormed

NotAnimated == [op |-> "none", objcamera |-> <<>>, objpath |-> <<>>, objtrackto |-> <<>>,
                startframe |-> 0, duration |-> 0, raised |-> "",
                before |-> <<>>, ncalls |-> 0]
IdleCam ==
    /\ cam_objects = <<>>
    /\ scene_frame_end = 0
    /\ pathname = Undefined
    /\ animated = NotAnimated

NotRerun == [done |-> 0, first |-> EmptyScene]
IdleRerun ==
    /\ elsewhere = {}
    /\ rerun = NotRerun

IdleLater ==
    /\ IdleForm
    /\ IdleCam
    /\ IdleRerun

(***************************************************************************)
(* The keyframe scripts as a state machine                                 *)
(***************************************************************************)
HandleOffsets == {1, 3}
Transforms == { <<2, 0>>, <<1, 5>>, <<3, -2>> }     \* (factor, frameshift)
Ranges == { <<DefaultFrameStart, DefaultFrameEnd>>, <<2, 10>> }
ActionLists == { <<>>, <<"a1">>, <<"a2", "a1">>, <<"a1", "a1">>, <<"a3", "a2">>,
                 <<"a3", "a1", "a3">> }

\* The orders in which a Python set can be iterated
Orderings(S) ==
    {s \in [1..Cardinality(S) -> S] : \A i, j \in DOMAIN s : i # j => s[i] # s[j]}

\* The objects and materials of the file: o1 and o2 match 'C*', o3 does not
Graph(an1, sl1, an3, sl3) ==
    [o \in ObjectIds |->
        [name |-> Names[o],
         select |-> (o = "o1"),
         animation |-> CASE o = "o1" -> an1
                         [] o = "o2" -> "a1"
                         [] o = "o3" -> an3,
         material_slots |-> CASE o = "o1" -> sl1
                              [] o = "o2" -> <<>>
                              [] o = "o3" -> sl3]]

InitCalls ==
    /\ collected = [state |-> "none", actions |-> {}, pattern |-> <<>>]
    /\ last = NoCall
    /\ before = actions
    /\ ncalls = 0

\* A file whose actions are shifted directly
InitShift ==
    /\ \E d \in HandleOffsets : actions = InitActions(d)
    /\ objects = Graph("a1", <<"m1">>, "a2", <<>>)
    /\ materials = [m \in MaterialIds |-> [animation |-> "a3"]]
    /\ InitCalls
    /\ IdleImport
    /\ IdleScene
    /\ IdleClean
    /\ IdleShape
    /\ IdleLater

\* A file whose actions are collected through its objects and materials
InitKeys ==
    /\ actions = InitActions(3)
    /\ \E an1 \in {NoAnimData, None, "a1"},
          sl1 \in { <<"m1">>, <<"m1", "m1">>, <<None>> },
          an3 \in {"a1", "a2"},
          sl3 \in { <<"m1">>, <<>> } :
          objects = Graph(an1, sl1, an3, sl3)
    /\ \E anm \in {NoAnimData, None, "a3"} :
          materials = [m \in MaterialIds |-> [animation |-> anm]]
    /\ InitCalls
    /\ IdleImport
    /\ IdleScene
    /\ IdleClean
    /\ IdleShape
    /\ IdleLater

\* shift_keyframes(actions=seq, ...) and what it leaves behind
DoShift(op, seq, factor, frameshift, frame_start, frame_end) ==
    LET r == shift_keyframes(actions, seq, factor, frameshift, frame_start, frame_end)
    IN /\ actions' = r.actions
       /\ before' = actions
       /\ last' = [op |-> op, seq |-> seq, factor |-> factor,
                   frameshift |-> frameshift, frame_start |-> frame_start,
                   frame_end |-> frame_end, raised |-> r.raised,
                   pattern |-> collected.pattern]
       /\ ncalls' = ncalls + 1
       /\ UNCHANGED <<objects, materials, collected, importvars, scenevars, cleanvars, shapevars, latervars>>

\* shift_keyframes(actions=<a list of actions>, factor, frameshift, frame_start, frame_end)
ShiftList ==
    /\ ncalls < MaxCalls
    /\ \E seq \in ActionLists, t \in Transforms, rg \in Ranges :
        DoShift("list", seq, t[1], t[2], rg[1], rg[2])

\* shift_keyframes(factor=k), line 113: every other argument has its default
ShiftDefault ==
    /\ ncalls < MaxCalls
    /\ \E t \in Transforms :
        DoShift("default", ActionOrder, t[1], DefaultFrameshift,
                DefaultFrameStart, DefaultFrameEnd)

\* actions = get_actions_for_objects(namepattern), line 116
GetActions ==
    \E pat \in Patterns :
        LET r == get_actions_for_objects(objects, materials, pat)
        IN /\ ncalls < MaxRuns
           /\ collected' = [state |-> IF r.raised THEN "raised" ELSE "set",
                            actions |-> IF r.raised THEN {} ELSE r.actions,
                            pattern |-> pat]
           /\ objects' = [o \in ObjectIds |-> [objects[o] EXCEPT !.select = FALSE]]
           /\ last' = [NoCall EXCEPT !.op = "get", !.pattern = pat]
           /\ before' = actions
           /\ UNCHANGED <<actions, materials, ncalls, importvars, scenevars, cleanvars, shapevars, latervars>>

\* shift_keyframes(actions=actions, ...), line 120, on the set just collected
ShiftCollected ==
    /\ collected.state = "set"
    /\ last.op = "get"
    /\ \E seq \in Orderings(collected.actions), t \in Transforms, rg \in Ranges :
          DoShift("collected", seq, t[1], t[2], rg[1], rg[2])

NextShift == ShiftList \/ ShiftDefault

SpecShift == InitShift /\ [][NextShift]_vars

NextKeys == GetActions \/ ShiftCollected

SpecKeys == InitKeys /\ [][NextKeys]_vars

(***************************************************************************)
(* The import script as a state machine                                    *)
(***************************************************************************)
Row(lon, lat, d, hrv, teff) == << <<"0">>, <<"0">>, lon, lat, d, hrv, teff >>

RowChoices ==
    { Row(<<"0">>, <<"0">>, <<"2">>, <<"5", "1">>, <<"5", "0", "0", "0">>),
      Row(<<"9", "0">>, <<"0">>, <<>>, <<"5", "0">>, <<>>),
      Row(<<"0">>, <<"9", "0">>, <<"2">>, <<>>, <<"5", "0", "0", "0">>),
      Row(<<"1", "8", "0">>, <<"-", "9", "0">>, <<"3">>, <<"-", "5", "0">>, <<>>),
      Row(<<"0">>, <<"0">>, <<"3">>, <<"1", "0">>, <<>>),
      Row(<<"9", "0">>, <<"0">>, <<"1">>, <<"-", "1", "0">>, <<>>),
      Row(<<"0">>, <<"0">>, <<"2">>, <<"1", "1">>, <<>>),
      Row(<<"0">>, <<"0">>, <<"2">>, <<"-", "5", "1">>, <<" ", "7">>),
      Row(<<"0">>, <<"0">>, <<"2">>, <<"x">>, <<>>),
      Row(<<>>, <<"0">>, <<"2">>, <<"6", "0">>, <<>>) }

RECURSIVE SeqsUpTo(_, _)
SeqsUpTo(S, n) ==
    IF n = 0 THEN { <<>> }
    ELSE LET shorter == SeqsUpTo(S, n - 1)
         IN shorter \cup {Append(q, e) : q \in shorter, e \in S}

Posfacs == {1, 2}
Halosize == 15          \* halosize = 0.015, in thousandths

\* The file is missing, or holds data rows with or without the header row first
InitImport ==
    /\ \E ex \in BOOLEAN, hd \in BOOLEAN, rows \in SeqsUpTo(RowChoices, MaxRows) :
          /\ ~ex => (~hd /\ rows = <<>>)
          /\ file = [exists |-> ex, header |-> hd,
                     rows |-> IF hd THEN <<HeaderRow>> \o rows ELSE rows]
    /\ lines = NotRead
    /\ starlist = NotAdjusted
    /\ created = NotCreated
    /\ pc = "start"
    /\ nruns = 0
    /\ IdleScene
    /\ IdleKeys
    /\ IdleClean
    /\ IdleShape
    /\ IdleLater

\* lines = read_daiquiri_csv(filename), line 324
ReadCsv ==
    /\ pc \in {"start", "created"}
    /\ nruns < MaxRuns
    /\ nruns' = nruns + 1
    /\ lines' = read_daiquiri_csv(file)
    /\ pc' = IF lines'.outcome = "returned" THEN "read" ELSE "failed"
    /\ starlist' = NotAdjusted
    /\ UNCHANGED <<file, created, scenevars, keyvars, cleanvars, shapevars, latervars>>

\* starlist = adjust_values(lines), line 325
AdjustValues ==
    /\ pc = "read"
    /\ starlist' = adjust_values(lines.rows)
    /\ pc' = IF starlist'.outcome = "returned" THEN "adjusted" ELSE "failed"
    /\ UNCHANGED <<file, lines, created, nruns, scenevars, keyvars, cleanvars, shapevars, latervars>>

\* create_hrv_meshes(starlist, origin, halosize, posfac), line 330
CreateHrvMeshes ==
    /\ pc = "adjusted"
    /\ \E posfac \in Posfacs :
          LET r == create_hrv_meshes(Scene, starlist.stars, Halosize, posfac)
          IN /\ data_objects' = r.scene.objects
             /\ data_meshes' = r.scene.meshes
             /\ data_materials' = r.scene.materials
             /\ created' = [posfac |-> posfac, objects |-> r.objects,
                            materials |-> r.materials, scene |-> Scene]
    /\ pc' = "created"
    /\ UNCHANGED <<file, lines, starlist, nruns, keyvars, cleanvars, shapevars, latervars>>

NextImport == ReadCsv \/ AdjustValues \/ CreateHrvMeshes

SpecImport == InitImport /\ [][NextImport]_vars

(***************************************************************************)
(* delete_unused_meshes and delete_unused_materials                        *)
(***************************************************************************)
RemoveAt(coll, p) == SubSeq(coll, 1, p - 1) \o SubSeq(coll, p + 1, Len(coll))

\* The loop with an iterator that counts positions, as over a Python list
RECURSIVE DeleteUnusedLoopByPosition(_, _, _)
DeleteUnusedLoopByPosition(coll, p, i) ==
    IF p > Len(coll) THEN [coll |-> coll, count |-> i]
    ELSE IF coll[p].users = 0
         THEN DeleteUnusedLoopByPosition(RemoveAt(coll, p), p + 1, i + 1)
         ELSE DeleteUnusedLoopByPosition(coll, p + 1, i)

\* Lines 96-102 and 77-82: for x in bpy.data.<collection>: remove x if x.users == 0.
\* The host's collection iterator steps to the following link of the list before
\* it hands out an item, so after remove(x) it stands on the item that followed
\* x, which is then at x's position p.
RECURSIVE DeleteUnusedLoop(_, _, _)
DeleteUnusedLoop(coll, p, i) ==
    IF p > Len(coll) THEN [coll |-> coll, count |-> i]
    ELSE IF coll[p].users = 0
         THEN DeleteUnusedLoop(RemoveAt(coll, p), p, i + 1)
         ELSE DeleteUnusedLoop(coll, p + 1, i)

delete_unused_materials(mats) == DeleteUnusedLoop(mats, 1, 0)

\* A removed mesh gives up its use of the materials in its slots
delete_unused_meshes(meshes, mats) ==
    LET r == DeleteUnusedLoop(meshes, 1, 0)
        gone == {i \in DOMAIN meshes : meshes[i].name \notin NamesOf(r.coll)}
        Uses(m) == Cardinality({<<i, k>> \in gone \X (1..1) :
                                   k \in DOMAIN meshes[i].materials
                                   /\ meshes[i].materials[k] = m})
    IN [coll |-> r.coll, count |-> r.count,
        materials |-> [j \in DOMAIN mats |->
                          [mats[j] EXCEPT !.users = @ - Uses(mats[j].name)]]]

(***************************************************************************)
(* The clean-up functions as a state machine                               *)
(***************************************************************************)
\* Meshes and materials left by earlier work: a mesh may use the first material,
\* and any of them may have other users or none
InitClean ==
    /\ \E nm \in 0..MaxColl, nt \in 0..MaxColl :
       \E mu \in [1..nm -> {0, 1}], slot \in [1..nm -> BOOLEAN], other \in [1..nt -> {0, 1}] :
          /\ nt = 0 => \A i \in 1..nm : ~slot[i]
          /\ data_meshes =
                [i \in 1..nm |->
                    [name |-> <<"Mesh", i - 1>>, users |-> mu[i], verts |-> <<>>,
                     materials |-> IF slot[i] THEN << <<"Mesh-red", 0>> >> ELSE <<>>]]
          /\ data_materials =
                [j \in 1..nt |->
                    [name |-> <<"Mesh-red", j - 1>>,
                     users |-> other[j] + IF j = 1
                                          THEN Cardinality({i \in 1..nm : slot[i]})
                                          ELSE 0,
                     type |-> "HALO", halo_size |-> Halosize]]
    /\ data_objects = <<>>
    /\ cleaned = NotCleaned
    /\ IdleKeys
    /\ IdleImport
    /\ IdleShape
    /\ IdleLater

\* delete_unused_meshes(), line 317
DeleteUnusedMeshes ==
    /\ cleaned.ncleans < MaxCleans
    /\ LET r == delete_unused_meshes(data_meshes, data_materials)
       IN /\ data_meshes' = r.coll
          /\ data_materials' = r.materials
          /\ cleaned' = [op |-> "meshes", count |-> r.count, meshes |-> data_meshes,
                         materials |-> data_materials, ncleans |-> cleaned.ncleans + 1]
    /\ UNCHANGED <<data_objects, keyvars, importvars, shapevars, latervars>>

\* delete_unused_materials(), line 321
DeleteUnusedMaterials ==
    /\ cleaned.ncleans < MaxCleans
    /\ LET r == delete_unused_materials(data_materials)
       IN /\ data_materials' = r.coll
          /\ cleaned' = [op |-> "materials", count |-> r.count, meshes |-> data_meshes,
                         materials |-> data_materials, ncleans |-> cleaned.ncleans + 1]
    /\ UNCHANGED <<data_objects, data_meshes, keyvars, importvars, shapevars, latervars>>

NextClean == DeleteUnusedMeshes \/ DeleteUnusedMaterials

SpecClean == InitClean /\ [][NextClean]_vars

(***************************************************************************)
(* deform_starmesh.py: make_basis_shapekeys                                *)
(***************************************************************************)
ShapeIds == {"s1", "s2", "s3"}
ShapeNames == [o \in ShapeIds |->
                 CASE o = "s1" -> <<"s", "r">>
                   [] o = "s2" -> <<"s", "b">>
                   [] o = "s3" -> <<"C">>]

\* bpy.ops.object.select_all(action='DESELECT')
DeselectAll(objs) == [o \in DOMAIN objs |-> [objs[o] EXCEPT !.select = FALSE]]

\* bpy.ops.object.select_pattern(pattern=...): the operator reaches only the
\* objects that are visible and selectable (see the comment at lines 25-26)
SelectPattern(objs, pattern) ==
    [o \in DOMAIN objs |->
        IF /\ fnmatchcase(objs[o].name, pattern)
           /\ ~objs[o].hide
           /\ ~objs[o].hide_select
        THEN [objs[o] EXCEPT !.select = TRUE]
        ELSE objs[o]]

\* m.shape_key_add(name=basisname): one more key block, with a name of its own
ShapeKeyAdd(obj, keyname) ==
    [obj EXCEPT !.select = TRUE,
                !.shape_keys = Append(@, UniqueName(Elements(@), keyname))]

\* Lines 118-130. The parameter 'objects' is overwritten at line 120 with the
\* selection made from the module-level namepattern; an unassigned namepattern
\* is a NameError at line 119, after the first DESELECT.
make_basis_shapekeys(objs, objectlist, basisname, modulepattern) ==
    IF modulepattern = Undefined
    THEN [objects |-> DeselectAll(objs), raised |-> "NameError"]
    ELSE LET selected == {o \in DOMAIN objs :
                            SelectPattern(DeselectAll(objs), modulepattern)[o].select}
         IN [objects |-> [o \in DOMAIN objs |->
                            IF o \in selected
                            THEN ShapeKeyAdd(objs[o], basisname)
                            ELSE [objs[o] EXCEPT !.select = FALSE]],
             raised |-> ""]

ObjectLists == { <<>>, <<"s1">>, <<"s1", "s2">>, <<"s3">>, <<"s1", "s2", "s3">> }
Basisnames == {"Basis"}

InitShape ==
    /\ \E h1 \in BOOLEAN, hs2 \in BOOLEAN, keys3 \in { <<>>, << <<"Basis", 0>> >> } :
          shape_objects =
             [o \in ShapeIds |->
                 [name |-> ShapeNames[o],
                  hide |-> (o = "s1" /\ h1),
                  hide_select |-> (o = "s2" /\ hs2),
                  select |-> (o = "s3"),
                  shape_keys |-> IF o = "s3" THEN keys3 ELSE <<>>]]
    /\ namepattern \in { <<"s", "*">>, <<"C">>, Undefined }
    /\ shaped = NotShaped
    /\ IdleKeys
    /\ IdleImport
    /\ IdleScene
    /\ IdleClean
    /\ IdleLater

\* make_basis_shapekeys(objects, basisname), line 244
MakeBasisShapekeys ==
    /\ shaped.nshapes < MaxShapes
    /\ \E objectlist \in ObjectLists, basisname \in Basisnames :
          LET r == make_basis_shapekeys(shape_objects, objectlist, basisname, namepattern)
          IN /\ shape_objects' = r.objects
             /\ shaped' = [op |-> "make_basis", objects |-> objectlist,
                           basisname |-> basisname, raised |-> r.raised,
                           before |-> shape_objects, nshapes |-> shaped.nshapes + 1]
    /\ UNCHANGED <<namepattern, keyvars, importvars, scenevars, cleanvars, latervars>>

NextShape == MakeBasisShapekeys

SpecShape == InitShape /\ [][NextShape]_vars

(***************************************************************************)
(* Properties of shift_keyframes and get_actions_for_objects               *)
(***************************************************************************)
OccursOnce(seq) == \A i, j \in DOMAIN seq : i # j => seq[i] # seq[j]
IsShift == last.op \in {"list", "default", "collected"}
InRange(frame) == frame >= last.frame_start /\ frame <= last.frame_end
Moved(frame) == frame * last.factor + last.frameshift
KeyIndex == {<<a, j, i>> \in ActionIds \X (1..2) \X (1..4) :
                j \in DOMAIN before[a] /\ i \in DOMAIN before[a][j]}
Old(k) == before[k[1]][k[2]][k[3]]
New(k) == actions[k[1]][k[2]][k[3]]

\* The keyframe was in range and now sits, with both handles, at frame*factor + frameshift
MovedOnce(k) ==
    /\ New(k).co[1] = Moved(Old(k).co[1])
    /\ New(k).handle_left[1] = Moved(Old(k).handle_left[1])
    /\ New(k).handle_right[1] = Moved(Old(k).handle_right[1])

\* C1 as stated: after shift_keyframes on a collection of actions, every keyframe
\* of an action of the collection that was in [frame_start, frame_end] is at
\* old*factor + frameshift, and so are the frames of its two handles.
C1_EveryCollection ==
    (IsShift /\ None \notin Elements(last.seq)) =>
        \A k \in KeyIndex :
            (k[1] \in Elements(last.seq) /\ InRange(Old(k).co[1])) => MovedOnce(k)

\* C1 amended: the same, for a collection in which no action occurs twice
\* (a set, bpy.data.actions, a list without duplicates).
C1_ShiftInRange ==
    (IsShift /\ None \notin Elements(last.seq) /\ OccursOnce(last.seq)) =>
        \A k \in KeyIndex :
            (k[1] \in Elements(last.seq) /\ InRange(Old(k).co[1])) => MovedOnce(k)

\* An in-range keyframe whose left handle lies before frame_start was moved with it
C1_Witness ==
    /\ last.op = "list" /\ OccursOnce(last.seq) /\ last.factor # 1
    /\ \E k \in KeyIndex :
          /\ k[1] \in Elements(last.seq)
          /\ InRange(Old(k).co[1]) /\ ~InRange(Old(k).handle_left[1])
          /\ Old(k).co[1] = last.frame_start
          /\ New(k).handle_left[1] # Old(k).handle_left[1]
          /\ MovedOnce(k)

\* C2: shift_keyframes changes no frame of a keyframe outside the range, no value
\* coordinate, no action outside the collection, and the number of actions,
\* fcurves and keyframes stays the same.
C2_Frame ==
    IsShift =>
        /\ DOMAIN actions = DOMAIN before
        /\ \A a \in ActionIds :
              /\ DOMAIN actions[a] = DOMAIN before[a]
              /\ \A j \in DOMAIN before[a] : DOMAIN actions[a][j] = DOMAIN before[a][j]
              /\ a \notin Elements(last.seq) => actions[a] = before[a]
        /\ \A k \in KeyIndex :
              /\ ~InRange(Old(k).co[1]) => New(k) = Old(k)
              /\ New(k).co[2] = Old(k).co[2]
              /\ New(k).handle_left[2] = Old(k).handle_left[2]
              /\ New(k).handle_right[2] = Old(k).handle_right[2]

\* A call that moved a keyframe of one action, left another keyframe of the same
\* action in place because it was past frame_end, and was not given every action
C2_Witness ==
    /\ last.op = "list" /\ last.factor # 1
    /\ Elements(last.seq) # ActionIds
    /\ \E k, n \in KeyIndex :
          /\ k[1] = n[1] /\ k[1] \in Elements(last.seq)
          /\ Old(k).co[1] > last.frame_end /\ New(k) = Old(k)
          /\ InRange(Old(n).co[1]) /\ New(n).co[1] # Old(n).co[1]

\* C3 as stated: shift_keyframes(factor=k) multiplies the frame of every keyframe
\* of every action of the file by k, whatever the frame was.
C3_StretchEverything ==
    last.op = "default" =>
        \A k \in KeyIndex : New(k).co[1] = Old(k).co[1] * last.factor

\* The actions the claim expects get_actions_for_objects to return
ExpectedActions(pattern) ==
    LET matching == {o \in ObjectIds : fnmatchcase(objects[o].name, pattern)}
    IN {objects[o].animation : o \in {m \in matching : objects[m].animation \in ActionIds}}
       \cup {materials[m].animation :
                m \in {x \in MaterialIds :
                         /\ materials[x].animation \in ActionIds
                         /\ \E o \in matching :
                               x \in Elements(objects[o].material_slots)}}

\* C4 as stated: get_actions_for_objects returns exactly the actions of the
\* matching objects and of the materials in their slots, each once, and
\* shift_keyframes on the result transforms each of their keyframes exactly once.
C4_ExactActions ==
    /\ last.op = "get" =>
          /\ collected.state = "set"
          /\ collected.actions = ExpectedActions(last.pattern)
    /\ last.op = "collected" =>
          /\ ~last.raised
          /\ \A k \in KeyIndex :
                (k[1] \in ExpectedActions(last.pattern) /\ InRange(Old(k).co[1]))
                    => MovedOnce(k)

InBin(b, hrv) ==
    CASE b = 1 -> hrv > 50
      [] b = 2 -> 10 < hrv /\ hrv <= 50
      [] b = 3 -> 0 - 10 < hrv /\ hrv <= 10
      [] b = 4 -> 0 - 50 < hrv /\ hrv <= 0 - 10
      [] b = 5 -> hrv <= 0 - 50

RECURSIVE PositionsIn(_, _, _)
PositionsIn(stars, b, posfac) ==
    IF stars = <<>> THEN <<>>
    ELSE LET star == Head(stars)
             rest == PositionsIn(Tail(stars), b, posfac)
         IN IF InBin(b, star.hrv)
            THEN << <<star.x * posfac, star.y * posfac, star.z * posfac>> >> \o rest
            ELSE rest

Named(coll, name) == CHOOSE e \in {coll[i] : i \in DOMAIN coll} : e.name = name
MeshOf(b) == Named(data_meshes, Named(data_objects, created.objects[b]).data)

\* C6: create_hrv_meshes makes five halo materials and five objects for every
\* star list; the mesh of each object holds, in input order, the positions times
\* posfac of exactly the stars whose hrv lies in its range, so that every star is
\* a vertex of exactly one mesh.
C6_Partition ==
    pc = "created" =>
        /\ Len(data_objects) = Len(created.scene.objects) + 5
        /\ Len(data_meshes) = Len(created.scene.meshes) + 5
        /\ Len(data_materials) = Len(created.scene.materials) + 5
        /\ \A b \in 1..5 :
              /\ created.objects[b][1] = MeshNames[b]
              /\ created.materials[b][1] = MaterialNames[b]
              /\ created.objects[b] \notin NamesOf(created.scene.objects)
              /\ created.materials[b] \notin NamesOf(created.scene.materials)
              /\ Named(data_materials, created.materials[b]).type = "HALO"
              /\ MeshOf(b).materials = <<created.materials[b]>>
              /\ MeshOf(b).verts = PositionsIn(starlist.stars, b, created.posfac)
        /\ Len(MeshOf(1).verts) + Len(MeshOf(2).verts) + Len(MeshOf(3).verts)
              + Len(MeshOf(4).verts) + Len(MeshOf(5).verts) = Len(starlist.stars)
        /\ \A i \in DOMAIN starlist.stars :
              Cardinality({b \in 1..5 : InBin(b, starlist.stars[i].hrv)}) = 1

\* Stars at the edges 50 and -50 went to 'stars-orange' and 'stars-blue', and
\* 'stars-red' was created without a vertex
C6_Witness ==
    /\ pc = "created"
    /\ \E i, j \in DOMAIN starlist.stars :
          starlist.stars[i].hrv = 50 /\ starlist.stars[j].hrv = 0 - 50
    /\ Len(MeshOf(2).verts) = 1 /\ Len(MeshOf(5).verts) = 1
    /\ MeshOf(1).verts = <<>>

BadField(line) ==
    \/ \E k \in {RAdeg, DEdeg, Glon, Glat} : ~ParseFloat(line[k]).ok
    \/ \E k \in {dist, HRV, Teff_K} : line[k] # <<>> /\ ~ParseFloat(line[k]).ok

\* C7: adjust_values returns one star per line, in the order of the lines; an
\* empty dist, HRV or Teff_K counts as 0, so a line without HRV has hrv = 0 and
\* becomes a vertex of 'stars-yellow', and a line without dist lies at the origin.
\* It raises only for a line with a field that is not a number.
C7_OneStarPerLine ==
    /\ starlist.outcome = "returned" =>
          /\ Len(starlist.stars) = Len(lines.rows)
          /\ \A i \in DOMAIN lines.rows :
                LET line == lines.rows[i]
                    star == starlist.stars[i]
                IN /\ line[HRV] = <<>> => (star.hrv = 0 /\ InBin(3, star.hrv))
                   /\ line[HRV] # <<>> => star.hrv = ParseFloat(line[HRV]).value
                   /\ line[Teff_K] = <<>> => star.teff = 0
                   /\ line[dist] = <<>> => (star.x = 0 /\ star.y = 0 /\ star.z = 0)
          /\ pc = "created" =>
                Len(MeshOf(3).verts) >=
                    Cardinality({i \in DOMAIN lines.rows : lines.rows[i][HRV] = <<>>})
    /\ starlist.outcome = "ValueError" =>
          \E i \in DOMAIN lines.rows : BadField(lines.rows[i])

\* Two lines were read, one without HRV and one without dist, and both are stars
C7_Witness ==
    /\ pc = "created"
    /\ Len(starlist.stars) = 2
    /\ \E i, j \in DOMAIN lines.rows :
          /\ i # j
          /\ lines.rows[i][HRV] = <<>> /\ lines.rows[i][dist] # <<>>
          /\ lines.rows[j][dist] = <<>> /\ lines.rows[j][HRV] # <<>>
          /\ starlist.stars[i].z # 0
          /\ starlist.stars[j].hrv = 50

\* C8 as stated: read_daiquiri_csv raises RuntimeError for a missing file and for
\* a file without header row, and for every other file returns one dictionary
\* per data row, in file order, keyed by the names of the first row.
C8_ReadOrRuntimeError ==
    lines.outcome # "none" =>
        /\ ~file.exists => lines.outcome = "RuntimeError"
        /\ (file.exists /\ ~file.header) => lines.outcome = "RuntimeError"
        /\ (file.exists /\ file.header) =>
              /\ lines.outcome = "returned"
              /\ Len(lines.rows) = Len(file.rows) - 1
              /\ \A i \in DOMAIN lines.rows :
                    /\ DOMAIN lines.rows[i] = Elements(HeaderRow)
                    /\ \A c \in DOMAIN HeaderRow :
                          lines.rows[i][HeaderRow[c]] = file.rows[i + 1][c]

(***************************************************************************)
(* Properties of the clean-up functions and of make_basis_shapekeys        *)
(***************************************************************************)
Used(e) == e.users > 0

\* C9: after delete_unused_materials no material without users is left, every
\* material that had users is still there, and the count it prints is the number
\* of materials removed; the same for delete_unused_meshes and the meshes,
\* whatever the collection held and wherever the unused entries stood.
C9_AllUnusedDeleted ==
    /\ cleaned.op = "materials" =>
          /\ \A j \in DOMAIN data_materials : data_materials[j].users > 0
          /\ data_materials = SelectSeq(cleaned.materials, Used)
          /\ cleaned.count = Len(cleaned.materials) - Len(data_materials)
          /\ data_meshes = cleaned.meshes
    /\ cleaned.op = "meshes" =>
          /\ \A i \in DOMAIN data_meshes : data_meshes[i].users > 0
          /\ data_meshes = SelectSeq(cleaned.meshes, Used)
          /\ cleaned.count = Len(cleaned.meshes) - Len(data_meshes)
          /\ NamesOf(data_materials) = NamesOf(cleaned.materials)

\* Two unused materials stood next to each other before a used one; both are gone
C9_Witness ==
    /\ cleaned.op = "materials"
    /\ cleaned.count >= 2
    /\ Len(data_materials) >= 1
    /\ \E j \in DOMAIN cleaned.materials :
          /\ j + 2 \in DOMAIN cleaned.materials
          /\ cleaned.materials[j].users = 0
          /\ cleaned.materials[j + 1].users = 0
          /\ cleaned.materials[j + 2].users > 0

\* C10 as stated: make_basis_shapekeys(objects, basisname) adds one shape key
\* named basisname to every object of the list it is given and to no other
\* object, whatever the module-level names hold and whichever objects are hidden
\* or not selectable.
C10_GivenObjectsOnly ==
    shaped.op = "make_basis" =>
        /\ shaped.raised = ""
        /\ \A o \in ShapeIds :
              IF o \in Elements(shaped.objects)
              THEN /\ Len(shape_objects[o].shape_keys)
                         = Len(shaped.before[o].shape_keys) + 1
                   /\ shape_objects[o].shape_keys[Len(shape_objects[o].shape_keys)][1]
                         = shaped.basisname
              ELSE shape_objects[o].shape_keys = shaped.before[o].shape_keys

(***************************************************************************)
(* deform_starmesh.py: shape keys that move the vertices to a form         *)
(***************************************************************************)
MaxVerts == 2           \* vertices of a star mesh
MaxForms == 1           \* calls that make a form shape key per behaviour

\* A coordinate, a radius or a key value is the exact fraction <<n, d>> in lowest
\* terms with d > 0; angles are whole degrees
RECURSIVE GCD(_, _)
GCD(a, b) == IF b = 0 THEN a ELSE GCD(b, a % b)

Abs(a) == IF a < 0 THEN 0 - a ELSE a

Frac(n, d) ==
    LET g == GCD(Abs(n), Abs(d))
        s == IF d < 0 THEN 0 - 1 ELSE 1
    IN <<(s * n) \div g, (s * d) \div g>>

RatInt(k) == <<k, 1>>
RatAdd(a, b) == Frac(a[1] * b[2] + b[1] * a[2], a[2] * b[2])
RatSub(a, b) == Frac(a[1] * b[2] - b[1] * a[2], a[2] * b[2])
RatMul(a, b) == Frac(a[1] * b[1], a[2] * b[2])
RatDiv(a, b) == Frac(a[1] * b[2], a[2] * b[1])
RatLeq(a, b) == a[1] * b[2] <= b[1] * a[2]

\* sqrt() of a fraction whose numerator and denominator are squares
ISqrt(n) == CHOOSE k \in 0..n : k * k = n
RatSqrt(a) == <<ISqrt(a[1]), ISqrt(a[2])>>

\* p.co.x*p.co.x + p.co.y*p.co.y + p.co.z*p.co.z
Norm2(p) == RatAdd(RatAdd(RatMul(p[1], p[1]), RatMul(p[2], p[2])), RatMul(p[3], p[3]))

\* acos() in degrees, for the quotients -1, 0 and 1
AcosDeg(q) ==
    CASE q = RatInt(1) -> 0
      [] q = RatInt(0) -> 90
      [] q = RatInt(0 - 1) -> 180

\* atan2() in degrees, for points of the x and y axes and for the origin
Atan2Deg(y, x) ==
    CASE y[1] = 0 /\ x[1] >= 0 -> 0
      [] y[1] > 0 /\ x[1] = 0 -> 90
      [] y[1] = 0 /\ x[1] < 0 -> 180
      [] y[1] < 0 /\ x[1] = 0 -> 0 - 90

FormIds == {"f1", "f2"}

\* m.shape_key_add(..., from_mix=True): the vertices of the new key are the
\* mesh's own when it has no key yet, else those of the first key plus, for each
\* further key, its value times its offset from the first key
RECURSIVE MixCoord(_, _, _, _, _)
MixCoord(keys, i, c, k, acc) ==
    IF k > Len(keys) THEN acc
    ELSE MixCoord(keys, i, c, k + 1,
                  RatAdd(acc, RatMul(keys[k].value,
                                     RatSub(keys[k].data[i][c], keys[1].data[i][c]))))

FromMix(obj) ==
    IF obj.keys = <<>> THEN obj.verts
    ELSE [i \in DOMAIN obj.verts |->
             [c \in 1..3 |-> MixCoord(obj.keys, i, c, 2, obj.keys[1].data[i][c])]]

KeyNames(obj) == {obj.keys[k].name : k \in DOMAIN obj.keys}

\* Lines 53-61: the loop over shapekey.data; r = 0 is a division by zero at line 57
RECURSIVE SphereLoop(_, _, _)
SphereLoop(data, i, rsphere) ==
    IF i > Len(data) THEN [data |-> data, raised |-> ""]
    ELSE LET p == data[i]
             r == RatSqrt(Norm2(p))
         IN IF r = RatInt(0)
            THEN [data |-> data, raised |-> "ZeroDivisionError"]
            ELSE LET scale == RatDiv(rsphere, r)
                 IN SphereLoop([data EXCEPT ![i] = <<RatMul(p[1], scale),
                                                     RatMul(p[2], scale),
                                                     RatMul(p[3], scale)>>],
                               i + 1, rsphere)

\* Lines 93-102: the loop over shapekey.data; r = 0 is a division by zero at line 97
RECURSIVE MapLoop(_, _, _, _)
MapLoop(data, i, mapw, maph) ==
    IF i > Len(data) THEN [data |-> data, raised |-> ""]
    ELSE LET p == data[i]
             r == RatSqrt(Norm2(p))
         IN IF r = RatInt(0)
            THEN [data |-> data, raised |-> "ZeroDivisionError"]
            ELSE LET theta == AcosDeg(RatDiv(p[3], r))
                     phi == Atan2Deg(p[2], p[1])
                     x == RatSub(RatInt(0), RatMul(Frac(phi, 360), mapw))
                     z == RatSub(RatInt(0),
                                 RatSub(RatMul(Frac(theta, 180), maph),
                                        RatMul(Frac(1, 2), maph)))
                 IN MapLoop([data EXCEPT ![i] = <<x, RatInt(0), z>>], i + 1, mapw, maph)

\* Lines 42-67 and 82-109, which differ in the loop only: the new key gets value 1,
\* its vertices are moved, and after the loop it gets value 0, the first key
\* becomes the active one and the object is deselected
FormKey(objs, o, keyname, moved) ==
    LET desel == DeselectAll(objs)
        name == UniqueName(KeyNames(objs[o]), keyname)
        key == [name |-> name, value |-> RatInt(IF moved.raised = "" THEN 0 ELSE 1),
                data |-> moved.data, keyframes |-> {}]
    IN [objects |->
           [desel EXCEPT ![o] =
               IF moved.raised = ""
               THEN [@ EXCEPT !.keys = Append(@, key), !.select = FALSE,
                              !.active_shape_key_index = 0]
               ELSE [@ EXCEPT !.keys = Append(@, key), !.select = TRUE]],
        key |-> name,
        raised |-> moved.raised]

shapekey_vertices_to_sphere(objs, o, keyname, rsphere) ==
    FormKey(objs, o, keyname, SphereLoop(FromMix(objs[o]), 1, rsphere))

shapekey_vertices_to_map(objs, o, keyname, mapw, maph) ==
    FormKey(objs, o, keyname, MapLoop(FromMix(objs[o]), 1, mapw, maph))

(***************************************************************************)
(* The form shape keys as a state machine                                  *)
(***************************************************************************)
Vertex(x, y, z) == <<RatInt(x), RatInt(y), RatInt(z)>>

\* Stars on the axes, and a star without a distance, which the import puts at
\* the origin
VertexChoices ==
    { Vertex(1, 0, 0), Vertex(0 - 1, 0, 0), Vertex(0, 0 - 2, 0),
      Vertex(0, 0, 2), Vertex(0, 0, 0 - 1), Vertex(0, 0, 0) }

Rspheres == {RatInt(2), RatInt(3)}
Mapws == {RatInt(8)}
Maphs == {RatInt(4)}

\* The vertices of a key the user made before: the mesh's with the axes exchanged
Turned(verts) == [i \in DOMAIN verts |-> <<verts[i][3], verts[i][1], verts[i][2]>>]

FormKeyChoices(verts) ==
    LET basis == [name |-> <<"Basis", 0>>, value |-> RatInt(0), data |-> verts,
                  keyframes |-> {}]
        old(v) == [name |-> <<"KeySphere", 0>>, value |-> RatInt(v),
                   data |-> Turned(verts), keyframes |-> {}]
    IN { <<>>, <<basis>>, <<basis, old(0)>>, <<basis, old(1)>> }

InitForm ==
    /\ \E verts \in SeqsUpTo(VertexChoices, MaxVerts) \ { <<>> } :
       \E keys \in FormKeyChoices(verts) :
          form_objects =
             [o \in FormIds |->
                 IF o = "f1"
                 THEN [verts |-> verts, keys |-> keys, select |-> FALSE,
                       active_shape_key_index |-> IF Len(keys) = 2 THEN 1 ELSE 0]
                 ELSE [verts |-> << Vertex(0, 2, 0) >>, keys |-> <<>>, select |-> TRUE,
                       active_shape_key_index |-> 0]]
    /\ formed = NotFormed
    /\ IdleKeys
    /\ IdleImport
    /\ IdleScene
    /\ IdleClean
    /\ IdleShape
    /\ IdleCam
    /\ IdleRerun

\* key = shapekey_vertices_to_sphere(obj, keyname, parameters), line 150
ToSphere ==
    /\ formed.ncalls < MaxForms
    /\ \E o \in FormIds, rsphere \in Rspheres :
          LET r == shapekey_vertices_to_sphere(form_objects, o, "KeySphere", rsphere)
          IN /\ form_objects' = r.objects
             /\ formed' = [NotFormed EXCEPT !.op = "sphere", !.obj = o, !.rsphere = rsphere,
                                            !.key = r.key, !.raised = r.raised,
                                            !.before = form_objects,
                                            !.ncalls = formed.ncalls + 1]
    /\ UNCHANGED <<keyvars, importvars, scenevars, cleanvars, shapevars, camvars, rerunvars>>

\* key = shapekey_vertices_to_map(obj, keyname, parameters), line 152
ToMap ==
    /\ formed.ncalls < MaxForms
    /\ \E o \in FormIds, mapw \in Mapws, maph \in Maphs :
          LET r == shapekey_vertices_to_map(form_objects, o, "KeyMap", mapw, maph)
          IN /\ form_objects' = r.objects
             /\ formed' = [NotFormed EXCEPT !.op = "map", !.obj = o, !.mapw = mapw,
                                            !.maph = maph,
                                            !.key = r.key, !.raised = r.raised,
                                            !.before = form_objects,
                                            !.ncalls = formed.ncalls + 1]
    /\ UNCHANGED <<keyvars, importvars, scenevars, cleanvars, shapevars, camvars, rerunvars>>

NextForm == ToSphere \/ ToMap

SpecForm == InitForm /\ [][NextForm]_vars

(***************************************************************************)
(* Properties of the form shape keys                                       *)
(***************************************************************************)
FormBefore == formed.before[formed.obj]
FormAfter == form_objects[formed.obj]
FormNewKey == FormAfter.keys[Len(FormAfter.keys)]

\* The keys the object had before the call still hold the same vertices
OldKeysKept ==
    /\ Len(FormAfter.keys) = Len(FormBefore.keys) + 1
    /\ \A k \in DOMAIN FormBefore.keys :
          /\ FormAfter.keys[k].name = FormBefore.keys[k].name
          /\ FormAfter.keys[k].data = FormBefore.keys[k].data

\* Every vertex of the new key is the source mix's vertex times rsphere/r
SphereKeyRight ==
    \A i \in DOMAIN FormBefore.verts :
       LET p == FromMix(FormBefore)[i]
           r == RatSqrt(Norm2(p))
           q == FormNewKey.data[i]
       IN /\ r # RatInt(0)
          /\ \A c \in 1..3 : q[c] = RatMul(p[c], RatDiv(formed.rsphere, r))
          /\ Norm2(q) = RatMul(formed.rsphere, formed.rsphere)

\* C11: shapekey_vertices_to_sphere returns a new shape key in which every vertex
\* of the source mix is scaled by rsphere/r in all three coordinates and so lies
\* at distance rsphere from the origin, and no earlier key's vertices change.
C11_OnSphere ==
    formed.op = "sphere" =>
        /\ formed.raised = ""
        /\ OldKeysKept
        /\ SphereKeyRight

\* Every vertex of the new key lies on the map where the formulas put it
MapKeyRight ==
    \A i \in DOMAIN FormBefore.verts :
       LET p == FromMix(FormBefore)[i]
           r == RatSqrt(Norm2(p))
           q == FormNewKey.data[i]
           halfw == RatMul(Frac(1, 2), formed.mapw)
           halfh == RatMul(Frac(1, 2), formed.maph)
           neg(a) == RatSub(RatInt(0), a)
       IN /\ r # RatInt(0)
          /\ q[2] = RatInt(0)
          /\ q[1] = neg(RatMul(Frac(Atan2Deg(p[2], p[1]), 360), formed.mapw))
          /\ q[3] = RatSub(halfh, RatMul(Frac(AcosDeg(RatDiv(p[3], r)), 180),
                                         formed.maph))
          /\ RatLeq(neg(halfw), q[1]) /\ RatLeq(q[1], halfw)
          /\ RatLeq(neg(halfh), q[3]) /\ RatLeq(q[3], halfh)
          /\ (p[1] = RatInt(0) /\ p[2] = RatInt(0) /\ p[3][1] > 0) => q[3] = halfh
          /\ (p[1] = RatInt(0) /\ p[2] = RatInt(0) /\ p[3][1] < 0) => q[3] = neg(halfh)

\* C12: shapekey_vertices_to_map returns a new shape key in which every vertex has
\* y = 0, x = -(phi/360)*mapw and z = maph/2 - (theta/180)*maph, angles in
\* degrees, within the map's width and height; the +z axis goes to the upper
\* edge and the -z axis to the lower edge.
C12_OnMap ==
    formed.op = "map" =>
        /\ formed.raised = ""
        /\ MapKeyRight

\* What both functions do when no vertex of the source mix is at the origin
NoVertexAtOrigin == \A i \in DOMAIN FormBefore.verts : Norm2(FromMix(FormBefore)[i]) # RatInt(0)
FormsAwayFromOrigin ==
    (formed.op \in {"sphere", "map"} /\ NoVertexAtOrigin) =>
        /\ formed.raised = ""
        /\ OldKeysKept
        /\ FormNewKey.value = RatInt(0)
        /\ ~FormAfter.select
        /\ formed.op = "sphere" => SphereKeyRight
        /\ formed.op = "map" => MapKeyRight

(***************************************************************************)
(* deform_starmesh.py: add_shape_animation                                 *)
(***************************************************************************)
HasKey(obj, keyname) == \E k \in DOMAIN obj.keys : obj.keys[k].name = keyname
KeyBlock(obj, keyname) == CHOOSE k \in DOMAIN obj.keys : obj.keys[k].name = keyname

\* An insert that leaves a keyframe already at the frame in place
KeyframeInsertKeepsOld(key, frame) ==
    [key EXCEPT !.keyframes = @ \cup { <<frame, key.value>> }]

\* key.keyframe_insert(data_path="value", frame=iframe): the key's current value
\* becomes the keyframe at the frame, in place of one that is there already
KeyframeInsert(key, frame) ==
    [key EXCEPT !.keyframes = {k \in @ : k[1] # frame} \cup { <<frame, key.value>> }]

\* Lines 203-213 for the key blocks at positions k0 and k1, statement by statement
AnimateKeys(keys, k0, iframe0, k1, iframe1) ==
    LET s1 == [keys EXCEPT ![k0].value = RatInt(1)]
        s2 == [s1 EXCEPT ![k1].value = RatInt(0)]
        s3 == [s2 EXCEPT ![k0] = KeyframeInsert(@, iframe0)]
        s4 == [s3 EXCEPT ![k1] = KeyframeInsert(@, iframe0)]
        s5 == [s4 EXCEPT ![k0].value = RatInt(0)]
        s6 == [s5 EXCEPT ![k1].value = RatInt(1)]
        s7 == [s6 EXCEPT ![k0] = KeyframeInsert(@, iframe1)]
    IN [s7 EXCEPT ![k1] = KeyframeInsert(@, iframe1)]

\* Lines 190-215: the loop over the objects. A mesh without shape keys has
\* m.data.shape_keys None (line 197), a name that is no key block is a KeyError
\* (lines 198-199); the object is selected by then.
RECURSIVE AnimLoop(_, _, _, _, _, _, _)
AnimLoop(objs, objectlist, i, keyname0, iframe0, keyname1, iframe1) ==
    IF i > Len(objectlist) THEN [objects |-> objs, raised |-> ""]
    ELSE LET o == objectlist[i]
             obj == [objs[o] EXCEPT !.select = TRUE]
         IN IF obj.keys = <<>>
            THEN [objects |-> [objs EXCEPT ![o] = obj], raised |-> "AttributeError"]
            ELSE IF ~HasKey(obj, keyname0) \/ ~HasKey(obj, keyname1)
            THEN [objects |-> [objs EXCEPT ![o] = obj], raised |-> "KeyError"]
            ELSE AnimLoop([objs EXCEPT ![o] =
                              [obj EXCEPT !.keys = AnimateKeys(@, KeyBlock(obj, keyname0),
                                                               iframe0,
                                                               KeyBlock(obj, keyname1),
                                                               iframe1),
                                          !.select = FALSE]],
                          objectlist, i + 1, keyname0, iframe0, keyname1, iframe1)

add_shape_animation(objs, objectlist, keyname0, iframe0, keyname1, iframe1) ==
    AnimLoop(DeselectAll(objs), objectlist, 1, keyname0, iframe0, keyname1, iframe1)

(***************************************************************************)
(* The shape key animation as a state machine                              *)
(***************************************************************************)
AnimKeynames == { <<"Basis", 0>>, <<"KeySphere", 0>>, <<"KeyMap", 0>> }
AnimFrames == {0, 30}
AnimObjectLists == { <<>>, <<"f1">>, <<"f2">>, <<"f1", "f2">> }

\* The keys as the calls before line 264 leave them, with or without keyframes
\* of an earlier animation
AnimKeyChoices(verts, animatedbefore) ==
    LET key(name, frames) == [name |-> name, value |-> RatInt(0), data |-> verts,
                              keyframes |-> IF animatedbefore THEN frames ELSE {}]
        basis == key(<<"Basis", 0>>, {})
        sphere == key(<<"KeySphere", 0>>, { <<0, RatInt(0)>>, <<170, RatInt(1)>> })
        map == key(<<"KeyMap", 0>>, { <<30, RatInt(1)>> })
    IN { <<>>, <<basis>>, <<basis, sphere>>, <<basis, sphere, map>> }

InitAnim ==
    /\ \E animatedbefore \in BOOLEAN, sel \in BOOLEAN :
       \E keys1 \in AnimKeyChoices(<< Vertex(1, 0, 0) >>, animatedbefore),
          keys2 \in AnimKeyChoices(<< Vertex(0, 2, 0) >>, animatedbefore) :
          /\ Len(keys2) = 3
          /\ form_objects =
                [o \in FormIds |->
                    [verts |-> IF o = "f1" THEN << Vertex(1, 0, 0) >> ELSE << Vertex(0, 2, 0) >>,
                     keys |-> IF o = "f1" THEN keys1 ELSE keys2,
                     select |-> sel,
                     active_shape_key_index |-> 0]]
    /\ formed = NotFormed
    /\ IdleKeys
    /\ IdleImport
    /\ IdleScene
    /\ IdleClean
    /\ IdleShape
    /\ IdleCam
    /\ IdleRerun

\* add_shape_animation(objects, keyname0, iframe0, keyname1, iframe1), lines 264-265
AddShapeAnimation ==
    /\ formed.ncalls < MaxForms
    /\ \E objectlist \in AnimObjectLists, keyname0 \in AnimKeynames, keyname1 \in AnimKeynames,
          iframe0 \in AnimFrames, iframe1 \in AnimFrames :
          LET r == add_shape_animation(form_objects, objectlist, keyname0, iframe0,
                                       keyname1, iframe1)
          IN /\ form_objects' = r.objects
             /\ formed' = [NotFormed EXCEPT !.op = "animate", !.objects = objectlist,
                                            !.keyname = keyname0, !.keyname1 = keyname1,
                                            !.iframe0 = iframe0, !.iframe1 = iframe1,
                                            !.raised = r.raised,
                                            !.before = form_objects,
                                            !.ncalls = formed.ncalls + 1]
    /\ UNCHANGED <<keyvars, importvars, scenevars, cleanvars, shapevars, camvars, rerunvars>>

NextAnim == AddShapeAnimation

SpecAnim == InitAnim /\ [][NextAnim]_vars

(***************************************************************************)
(* Properties of add_shape_animation                                       *)
(***************************************************************************)
\* The key has exactly one keyframe at the frame, and it has the value v
ValueAt(key, frame, v) ==
    /\ <<frame, RatInt(v)>> \in key.keyframes
    /\ \A k \in key.keyframes : k[1] = frame => k[2] = RatInt(v)

\* Keyframes of the object from before the call that the call is not to touch
Untouched(obj) ==
    UNION { {<<obj.keys[k].name, f>> :
                f \in {g \in obj.keys[k].keyframes :
                          \/ obj.keys[k].name \notin {formed.keyname, formed.keyname1}
                          \/ g[1] \notin {formed.iframe0, formed.iframe1}}} :
            k \in DOMAIN obj.keys }

\* What the claim says of one object of the list
AnimatedRight(o) ==
    LET was == formed.before[o]
        obj == form_objects[o]
    IN /\ HasKey(obj, formed.keyname) /\ HasKey(obj, formed.keyname1)
       /\ LET key0 == obj.keys[KeyBlock(obj, formed.keyname)]
              key1 == obj.keys[KeyBlock(obj, formed.keyname1)]
          IN /\ ValueAt(key0, formed.iframe0, 1)
             /\ ValueAt(key0, formed.iframe1, 0)
             /\ ValueAt(key1, formed.iframe0, 0)
             /\ ValueAt(key1, formed.iframe1, 1)
             /\ key0.value = RatInt(0)
             /\ key1.value = RatInt(1)
       /\ ~obj.select
       /\ Untouched(obj) = Untouched(was)
       /\ Len(obj.keys) = Len(was.keys)
       /\ \A k \in DOMAIN was.keys :
             /\ obj.keys[k].name = was.keys[k].name
             /\ obj.keys[k].data = was.keys[k].data
             /\ was.keys[k].name \notin {formed.keyname, formed.keyname1}
                   => obj.keys[k] = was.keys[k]

\* C13 as stated: a call with iframe0 # iframe1 gives every object
\* of the list the four keyframes (keyname0: 1 at iframe0, 0 at iframe1; keyname1:
\* 0 at iframe0, 1 at iframe1), leaves keyname0 at 0, keyname1 at 1 and the
\* object deselected, and changes no other keyframe and no other key.
C13_FourKeyframes ==
    (formed.op = "animate" /\ formed.iframe0 # formed.iframe1) =>
        /\ formed.raised = ""
        /\ \A o \in Elements(formed.objects) : AnimatedRight(o)

\* C13: the same for the calls in which keyname0 and keyname1 are two different
\* names and every object of the list has a key block of either name.
C13_FourKeyframesOfTwoKeys ==
    (/\ formed.op = "animate"
     /\ formed.iframe0 # formed.iframe1
     /\ formed.keyname # formed.keyname1
     /\ \A o \in Elements(formed.objects) :
           /\ HasKey(formed.before[o], formed.keyname)
           /\ HasKey(formed.before[o], formed.keyname1)) =>
        /\ formed.raised = ""
        /\ \A o \in Elements(formed.objects) : AnimatedRight(o)

\* Both objects were animated between two keys they have, over a keyframe that
\* was at iframe0 with another value, with other keyframes around
C13_Witness ==
    /\ formed.op = "animate"
    /\ formed.raised = ""
    /\ formed.objects = <<"f1", "f2">>
    /\ formed.keyname = <<"KeySphere", 0>>
    /\ formed.keyname1 = <<"KeyMap", 0>>
    /\ formed.iframe0 = 0
    /\ formed.iframe1 = 30
    /\ \A o \in FormIds :
          /\ HasKey(formed.before[o], formed.keyname)
          /\ HasKey(formed.before[o], formed.keyname1)
          /\ <<0, RatInt(0)>> \in formed.before[o].keys[KeyBlock(formed.before[o],
                                                                 formed.keyname)].keyframes
          /\ <<170, RatInt(1)>> \in form_objects[o].keys[KeyBlock(form_objects[o],
                                                                  formed.keyname)].keyframes

(***************************************************************************)
(* animate_camera.py                                                       *)
(***************************************************************************)
MaxCamCalls == 2        \* animate_camera() and run() calls per behaviour

DefaultStartframe == 1
DefaultDuration == 200
PathDuration == 100
EvalTimeEnd == 100
RunStartframe == 0
RunDuration == 600

CameraName == <<"Camera", 0>>

\* A new object as the host makes it
NewObject(name, type, location) ==
    [name |-> name, type |-> type, location |-> location, hide_render |-> FALSE,
     constraints |-> <<>>, use_path |-> FALSE, path_duration |-> 0, eval_time |-> 0,
     keys |-> {}]

\* bpy.data.objects[name]
Lookup(objs, name) == CHOOSE i \in DOMAIN objs : objs[i].name = name

\* add_camera_path, lines 10-23: a new curve, which gets the name if it is free
add_camera_path(objs, name, location) ==
    LET given == UniqueName(NamesOf(objs), name)
    IN [objects |-> Append(objs, NewObject(given, "CURVE", location)), ob |-> given]

\* add_trackto_object, lines 34-39
add_trackto_object(objs, name, location) ==
    LET given == UniqueName(NamesOf(objs), name)
    IN [objects |-> Append(objs, [NewObject(given, "EMPTY", location)
                                     EXCEPT !.hide_render = TRUE]),
        ob |-> given]

\* bpy.ops.object.constraint_add(type=...) and then
\* constraints["<type name>"].target = target: the new constraint gets a name of
\* its own, the target is set on the constraint that has the plain name
AddConstraint(cons, typename, target) ==
    LET added == Append(cons, [name |-> UniqueName(NamesOf(cons), typename),
                               type |-> typename, target |-> None])
    IN [i \in DOMAIN added |->
           IF added[i].name = <<typename, 0>>
           THEN [added[i] EXCEPT !.target = target]
           ELSE added[i]]

\* Lines 58-72: the camera is reset and gets the two constraints
CameraConstrained(cam, objpath, objtrackto) ==
    [cam EXCEPT !.location = <<0, 0, 0>>,
                !.constraints = AddConstraint(AddConstraint(@, "Follow Path", objpath),
                                              "Track To", objtrackto)]

\* Lines 77-100: the curve's old eval_time keyframes go, two new ones are set;
\* the second insert takes the place of the first when both are at one frame
PathAnimated(path, startframe, duration) ==
    LET first == { <<startframe, 0>> }
        endframe == startframe + duration
    IN [path EXCEPT !.use_path = TRUE,
                    !.path_duration = PathDuration,
                    !.eval_time = EvalTimeEnd,
                    !.keys = {k \in first : k[1] # endframe} \cup { <<endframe, EvalTimeEnd>> }]

\* animate_camera, lines 58-107. Line 76 reads the name 'pathname', which is no
\* parameter and no local: it is the module's, and NameError when the module has
\* none; the object of that name takes the place of the objpath passed.
animate_camera(objs, fe, objcamera, objpath, objtrackto, startframe, duration, modpathname) ==
    LET c == Lookup(objs, objcamera)
        constrained == [objs EXCEPT ![c] = CameraConstrained(@, objpath, objtrackto)]
        endframe == startframe + duration
    IN IF modpathname = Undefined
       THEN [objects |-> constrained, frame_end |-> fe, raised |-> "NameError"]
       ELSE IF modpathname \notin NamesOf(objs)
       THEN [objects |-> constrained, frame_end |-> fe, raised |-> "KeyError"]
       ELSE [objects |-> [constrained EXCEPT ![Lookup(objs, modpathname)] =
                              PathAnimated(@, startframe, duration)],
             frame_end |-> IF fe < endframe THEN endframe ELSE fe,
             raised |-> ""]

\* run, lines 111-127
run(objs, fe, modpathname) ==
    LET p == add_camera_path(objs, "Camera-Path", <<0, 0, 1>>)
        t == add_trackto_object(p.objects, "Camera-TrackTo", <<0, 0, 0>>)
        r == animate_camera(t.objects, fe, CameraName, p.ob, t.ob,
                            RunStartframe, RunDuration, modpathname)
    IN [objects |-> r.objects, frame_end |-> r.frame_end, raised |-> r.raised,
        objpath |-> p.ob, objtrackto |-> t.ob]

(***************************************************************************)
(* The camera script as a state machine                                    *)
(***************************************************************************)
Startframes == {RunStartframe, DefaultStartframe}
Durations == {DefaultDuration, RunDuration}
SceneFrameEnds == {250}

\* The start-up file's camera, and perhaps a path and a track-to object of the
\* user's own; the module has a name 'pathname' only if something else defined it
InitCamera ==
    /\ \E userpath \in {"none", "plain", "animated"}, userempty \in BOOLEAN :
          cam_objects =
             << NewObject(CameraName, "CAMERA", <<7, 0 - 6, 5>>) >>
             \o (IF userpath = "none" THEN <<>>
                 ELSE << [NewObject(<<"Camera-Path", 0>>, "CURVE", <<0, 0, 1>>)
                            EXCEPT !.keys = IF userpath = "animated"
                                            THEN { <<1, 0>>, <<50, EvalTimeEnd>> }
                                            ELSE {}] >>)
             \o (IF userempty
                 THEN << NewObject(<<"Camera-TrackTo", 0>>, "EMPTY", <<0, 0, 0>>) >>
                 ELSE <<>>)
    /\ scene_frame_end \in SceneFrameEnds
    /\ pathname \in {Undefined, <<"Camera-Path", 0>>}
    /\ animated = NotAnimated
    /\ IdleKeys
    /\ IdleImport
    /\ IdleScene
    /\ IdleClean
    /\ IdleShape
    /\ IdleForm
    /\ IdleRerun

\* animate_camera(objcamera, objpath, objtrackto, startframe, duration), line 125
AnimateCamera ==
    /\ animated.ncalls < MaxCamCalls
    /\ \E p \in DOMAIN cam_objects, t \in DOMAIN cam_objects,
          startframe \in Startframes, duration \in Durations :
          /\ cam_objects[p].type = "CURVE"
          /\ cam_objects[t].type = "EMPTY"
          /\ LET objpath == cam_objects[p].name
                 objtrackto == cam_objects[t].name
                 r == animate_camera(cam_objects, scene_frame_end, CameraName, objpath,
                                     objtrackto, startframe, duration, pathname)
             IN /\ cam_objects' = r.objects
                /\ scene_frame_end' = r.frame_end
                /\ animated' = [op |-> "animate_camera", objcamera |-> CameraName,
                                objpath |-> objpath, objtrackto |-> objtrackto,
                                startframe |-> startframe, duration |-> duration,
                                raised |-> r.raised, before |-> cam_objects,
                                ncalls |-> animated.ncalls + 1]
    /\ UNCHANGED <<pathname, keyvars, importvars, scenevars, cleanvars, shapevars,
                   formvars, rerunvars>>

\* run(), line 131
Run ==
    /\ animated.ncalls < MaxCamCalls
    /\ LET r == run(cam_objects, scene_frame_end, pathname)
       IN /\ cam_objects' = r.objects
          /\ scene_frame_end' = r.frame_end
          /\ animated' = [op |-> "run", objcamera |-> CameraName,
                          objpath |-> r.objpath, objtrackto |-> r.objtrackto,
                          startframe |-> RunStartframe, duration |-> RunDuration,
                          raised |-> r.raised, before |-> cam_objects,
                          ncalls |-> animated.ncalls + 1]
    /\ UNCHANGED <<pathname, keyvars, importvars, scenevars, cleanvars, shapevars,
                   formvars, rerunvars>>

NextCamera == AnimateCamera \/ Run

SpecCamera == InitCamera /\ [][NextCamera]_vars

(***************************************************************************)
(* Properties of animate_camera and run                                    *)
(***************************************************************************)
\* The curve has exactly one eval_time keyframe at the frame, with value v
EvalTimeAt(path, frame, v) ==
    /\ <<frame, v>> \in path.keys
    /\ \A k \in path.keys : k[1] = frame => k[2] = v

\* The camera has a constraint of the type with the target
Constrained(cam, typename, target) ==
    \E i \in DOMAIN cam.constraints :
        /\ cam.constraints[i].type = typename
        /\ cam.constraints[i].target = target

\* The object passed as objpath is animated and the camera follows it
PassedPathAnimated ==
    /\ animated.objpath \in NamesOf(cam_objects)
    /\ LET path == cam_objects[Lookup(cam_objects, animated.objpath)]
           cam == cam_objects[Lookup(cam_objects, animated.objcamera)]
       IN /\ path.use_path
          /\ path.path_duration = PathDuration
          /\ EvalTimeAt(path, animated.startframe, 0)
          /\ EvalTimeAt(path, animated.startframe + animated.duration, EvalTimeEnd)
          /\ cam.location = <<0, 0, 0>>
          /\ Constrained(cam, "Follow Path", animated.objpath)
          /\ Constrained(cam, "Track To", animated.objtrackto)

\* C14: animate_camera completes without error and animates the path object it
\* was passed (use_path, path_duration 100, eval_time keyframes 0 at startframe
\* and 100 at startframe + duration; camera at the origin, following the path
\* and tracking the track-to object); run() completes and leaves eval_time
\* keyframes at frames 0 and 600 on 'Camera-Path'.
C14_PathAnimated ==
    animated.op \in {"animate_camera", "run"} =>
        /\ animated.raised = ""
        /\ PassedPathAnimated
        /\ animated.op = "run" =>
              /\ <<"Camera-Path", 0>> \in NamesOf(cam_objects)
              /\ LET path == cam_objects[Lookup(cam_objects, <<"Camera-Path", 0>>)]
                 IN /\ EvalTimeAt(path, RunStartframe, 0)
                    /\ EvalTimeAt(path, RunStartframe + RunDuration, EvalTimeEnd)

\* What a first call does when the module's pathname names the path passed
FirstCallOnNamedPath ==
    (/\ animated.op \in {"animate_camera", "run"}
     /\ pathname = animated.objpath
     /\ animated.before[Lookup(animated.before, animated.objcamera)].constraints = <<>>) =>
        /\ animated.raised = ""
        /\ PassedPathAnimated

(***************************************************************************)
(* ravestars_mesh.py: the main part, run again and again on one file       *)
(***************************************************************************)
MaxReruns == 2          \* runs of the import script per behaviour

\* fnmatch.fnmatchcase(obj.name, 'stars-*') over the names of the star scene: a
\* name is its text and the number the host may have put behind it
MatchesStars(name) == name[1] \in Elements(MeshNames) \cup {"stars-old"}

\* get_objects('stars-*'), lines 38-39: positions in bpy.data.objects, all scenes
get_objects(objs) == {i \in DOMAIN objs : MatchesStars(objs[i].name)}

\* delete_objects, lines 55-66. Selecting reaches an object only through the
\* current scene, and bpy.ops.object.delete() removes the selected objects of
\* the current scene; a removed object gives up its use of its mesh.
delete_objects(sc, away, given) ==
    LET marked == [i \in DOMAIN sc.objects |->
                      IF i \in given
                      THEN [sc.objects[i] EXCEPT !.hide_select = FALSE,
                                                 !.select = sc.objects[i].name \notin away]
                      ELSE [sc.objects[i] EXCEPT !.select = FALSE]]
        kept == SelectSeq(marked, LAMBDA ob : ~ob.select)
        Freed(m) == Cardinality({i \in DOMAIN marked : marked[i].select /\ marked[i].data = m})
    IN [objects |-> kept,
        meshes |-> [j \in DOMAIN sc.meshes |->
                       [sc.meshes[j] EXCEPT !.users = @ - Freed(sc.meshes[j].name)]],
        materials |-> sc.materials]

(***************************************************************************)
(* The repeated import as a state machine                                  *)
(***************************************************************************)
RerunRows ==
    { Row(<<"0">>, <<"0">>, <<"2">>, <<"5", "1">>, <<"5", "0", "0", "0">>),
      Row(<<"1", "8", "0">>, <<"-", "9", "0">>, <<"3">>, <<"-", "5", "0">>, <<>>),
      Row(<<"0">>, <<"0">>, <<"2">>, <<"x">>, <<>>) }

\* What the file holds before the first run: nothing, or one object of the
\* user's with a mesh and a halo material of its own
UserObjects ==
    { <<"stars-red", 0>>, <<"stars-old", 0>>, <<"Cube", 0>> }

UserScene(name, locked) ==
    [objects |-> << [name |-> name, data |-> <<"Mesh", 0>>, select |-> TRUE,
                     hide_select |-> locked] >>,
     meshes |-> << [name |-> <<"Mesh", 0>>, users |-> 1, verts |-> <<>>,
                    materials |-> << <<"Mesh-red", 0>> >>] >>,
     materials |-> << [name |-> <<"Mesh-red", 0>>, users |-> 1, type |-> "HALO",
                       halo_size |-> Halosize] >>]

InitRerun ==
    /\ \E ex \in BOOLEAN, hd \in BOOLEAN, rows \in SeqsUpTo(RerunRows, MaxRows) :
          /\ ~ex => (~hd /\ rows = <<>>)
          /\ file = [exists |-> ex, header |-> hd,
                     rows |-> IF hd THEN <<HeaderRow>> \o rows ELSE rows]
    /\ \E sc \in {EmptyScene} \cup {UserScene(n, l) : n \in UserObjects, l \in BOOLEAN} :
          /\ data_objects = sc.objects
          /\ data_meshes = sc.meshes
          /\ data_materials = sc.materials
          /\ \E away \in SUBSET NamesOf(sc.objects) : elsewhere = away
    /\ lines = NotRead
    /\ starlist = NotAdjusted
    /\ created = NotCreated
    /\ pc = "main"
    /\ nruns = 0
    /\ rerun = NotRerun
    /\ IdleKeys
    /\ IdleClean
    /\ IdleShape
    /\ IdleForm
    /\ IdleCam

\* objects = get_objects('stars-*'); delete_objects(objects), lines 314-315
RerunDeleteObjects ==
    /\ pc \in {"main", "created"}
    /\ nruns < MaxReruns
    /\ nruns' = nruns + 1
    /\ LET r == delete_objects(Scene, elsewhere, get_objects(data_objects))
       IN /\ data_objects' = r.objects
          /\ data_meshes' = r.meshes
          /\ data_materials' = r.materials
    /\ lines' = NotRead
    /\ starlist' = NotAdjusted
    /\ pc' = "objects_deleted"
    /\ UNCHANGED <<file, created, elsewhere, rerun, keyvars, cleanvars, shapevars,
                   formvars, camvars>>

\* delete_unused_meshes(), line 317
RerunDeleteUnusedMeshes ==
    /\ pc = "objects_deleted"
    /\ LET r == delete_unused_meshes(data_meshes, data_materials)
       IN /\ data_meshes' = r.coll
          /\ data_materials' = r.materials
    /\ pc' = "meshes_deleted"
    /\ UNCHANGED <<file, lines, starlist, created, nruns, data_objects, elsewhere, rerun,
                   keyvars, cleanvars, shapevars, formvars, camvars>>

\* delete_unused_materials(), line 321
RerunDeleteUnusedMaterials ==
    /\ pc = "meshes_deleted"
    /\ data_materials' = delete_unused_materials(data_materials).coll
    /\ pc' = "materials_deleted"
    /\ UNCHANGED <<file, lines, starlist, created, nruns, data_objects, data_meshes,
                   elsewhere, rerun, keyvars, cleanvars, shapevars, formvars, camvars>>

\* lines = read_daiquiri_csv(filename), line 324
RerunReadCsv ==
    /\ pc = "materials_deleted"
    /\ lines' = read_daiquiri_csv(file)
    /\ pc' = IF lines'.outcome = "returned" THEN "read" ELSE "failed"
    /\ UNCHANGED <<file, starlist, created, nruns, scenevars, rerunvars,
                   keyvars, cleanvars, shapevars, formvars, camvars>>

\* starlist = adjust_values(lines), line 325
RerunAdjustValues ==
    /\ pc = "read"
    /\ starlist' = adjust_values(lines.rows)
    /\ pc' = IF starlist'.outcome = "returned" THEN "adjusted" ELSE "failed"
    /\ UNCHANGED <<file, lines, created, nruns, scenevars, rerunvars,
                   keyvars, cleanvars, shapevars, formvars, camvars>>

\* create_hrv_meshes(starlist, origin, halosize, posfac), line 330; posfac is
\* the script's and so the same in every run
RerunCreateHrvMeshes ==
    /\ pc = "adjusted"
    /\ \E posfac \in Posfacs :
          /\ rerun.done > 0 => posfac = created.posfac
          /\ LET r == create_hrv_meshes(Scene, starlist.stars, Halosize, posfac)
             IN /\ data_objects' = r.scene.objects
                /\ data_meshes' = r.scene.meshes
                /\ data_materials' = r.scene.materials
                /\ created' = [posfac |-> posfac, objects |-> r.objects,
                               materials |-> r.materials, scene |-> Scene]
                /\ rerun' = [done |-> rerun.done + 1,
                             first |-> IF rerun.done = 0 THEN r.scene ELSE rerun.first]
    /\ pc' = "created"
    /\ UNCHANGED <<file, lines, starlist, nruns, elsewhere,
                   keyvars, cleanvars, shapevars, formvars, camvars>>

NextRerun ==
    \/ RerunDeleteObjects
    \/ RerunDeleteUnusedMeshes
    \/ RerunDeleteUnusedMaterials
    \/ RerunReadCsv
    \/ RerunAdjustValues
    \/ RerunCreateHrvMeshes

SpecRerun == InitRerun /\ [][NextRerun]_vars

(***************************************************************************)
(* Properties of the repeated import                                       *)
(***************************************************************************)
StarObjects == {i \in DOMAIN data_objects : MatchesStars(data_objects[i].name)}

\* The objects matching 'stars-*' are the five of the script, one material each
FiveStarObjects ==
    /\ Cardinality(StarObjects) = 5
    /\ {data_objects[i].name : i \in StarObjects} = {<<MeshNames[b], 0>> : b \in 1..5}
    /\ \A i \in StarObjects :
          \E j \in DOMAIN data_meshes :
             /\ data_meshes[j].name = data_objects[i].data
             /\ Len(data_meshes[j].materials) = 1

\* C15: whatever the scene was, after one or more complete runs of the script on
\* the same file the objects matching 'stars-*' are exactly stars-red,
\* stars-orange, stars-yellow, stars-cyan and stars-blue, each with one material,
\* and the scene is the one the first run left, so nothing of an earlier run
\* remains.
C15_RerunIdempotent ==
    pc = "created" =>
        /\ FiveStarObjects
        /\ Scene = rerun.first

\* The same when every object matching 'stars-*' is linked in the current scene
RerunInOneScene ==
    (pc = "created" /\ \A n \in elsewhere : ~MatchesStars(n)) =>
        /\ FiveStarObjects
        /\ Scene = rerun.first

\* A later run leaves the scene the first run left
RerunSameScene == pc = "created" => Scene = rerun.first

====
